---- MODULE Spec2Model ----
(***************************************************************************)
(* Model of udev-utils.c of libudev-devd: the subsystem dispatch table,    *)
(* the cached kernel feature flag, the evdev capability classifier and the *)
(* synthesis of the parent device of legacy devices.                       *)
(*                                                                         *)
(* C strings that the code inspects (paths, names, property values) are    *)
(* sequences of one-character strings; strings the code only passes        *)
(* around (property names, handler names) are TLA+ strings.                *)
(***************************************************************************)
EXTENDS Integers, Sequences, FiniteSets, TLC

VARIABLES
    enabled,    \* static int enabled of kernel_has_evdev_enabled, as 4 bytes in memory order
    kern,       \* the kernel: whether kern.features.evdev_support exists, and its value
    byteorder,  \* byte order of the build: "little" or "big"
    ud,         \* the udev_device being handled: syspath, properties, parent
    gate,       \* what the kernel_has_evdev_enabled call of the last step did
    firstRead,  \* the value the first successful feature flag query read, if any
    sub,        \* what get_subsystem_by_syspath reported for ud's path
    obs         \* what the last invoke_create_handler did

vars == <<enabled, kern, byteorder, ud, gate, firstRead, sub, obs>>

(***************************************************************************)
(* Bounds of the model.                                                    *)
(***************************************************************************)
\* the uninitialized size_t len of kernel_has_evdev_enabled holds 0..MaxLen
MaxLen == 4
\* at most MaxFailures of the allocations of one handler invocation fail
MaxFailures == 1

(***************************************************************************)
(* Program constants.                                                      *)
(***************************************************************************)
BUS_PCI == 1
BUS_USB == 3
BUS_VIRTUAL == 6
BUS_ISA == 16
BUS_I8042 == 17

PS2_KEYBOARD_VENDOR == 1
PS2_KEYBOARD_PRODUCT == 1
PS2_MOUSE_VENDOR == 2
PS2_MOUSE_GENERIC_PRODUCT == 1

IT_NONE == 0
IT_KEYBOARD == 1
IT_MOUSE == 2
IT_TOUCHPAD == 3
IT_TOUCHSCREEN == 4
IT_JOYSTICK == 5
IT_TABLET == 6

SCFLAG_SKIP_IF_EVDEV == 1

\* sizeof(int): the size of the feature flag and of the cache
SizeofInt == 4

\* event codes of <linux/input.h> the classifier names
KEY_A == 30
BTN_MISC == 256
BTN_LEFT == 272
BTN_MIDDLE == 274
BTN_JOYSTICK == 288
BTN_TOOL_PEN == 320
BTN_TOOL_FINGER == 325
BTN_TOUCH == 330
BTN_STYLUS == 331
BTN_STYLUS2 == 332
REL_X == 0
REL_Y == 1
REL_CNT == 16
ABS_X == 0
ABS_Y == 1
ABS_PRESSURE == 24
ABS_MT_SLOT == 47
ABS_CNT == 64

\* #ifdef HAVE_LINUX_INPUT_H: the build has the evdev rule and handler
HAVE_LINUX_INPUT_H == TRUE

(***************************************************************************)
(* C strings.                                                              *)
(***************************************************************************)
\* a NULL char pointer; no C string equals it
NULL == <<"(null)">>

Digits == <<"0", "1", "2", "3", "4", "5", "6", "7", "8", "9">>

HexDigits == Digits \o <<"a", "b", "c", "d", "e", "f">>

UpperHexDigits == Digits \o <<"A", "B", "C", "D", "E", "F">>

\* c >= '0' && c <= '9'
IsDigit(c) == \E i \in 1..10 : Digits[i] = c

\* the value of a digit character in strtol; 99 when it is no digit of any base
DigitVal(c) ==
    IF \E i \in 1..16 : HexDigits[i] = c
    THEN (CHOOSE i \in 1..16 : HexDigits[i] = c) - 1
    ELSE IF \E i \in 1..16 : UpperHexDigits[i] = c
    THEN (CHOOSE i \in 1..16 : UpperHexDigits[i] = c) - 1
    ELSE 99

\* the digits of s in that base, up to the first character that is none, as a
\* number: acc = acc * base + digit, character by character
RECURSIVE strtol_digits(_, _, _)
strtol_digits(s, base, acc) ==
    IF s = <<>> \/ DigitVal(Head(s)) >= base
    THEN acc
    ELSE strtol_digits(Tail(s), base, acc * base + DigitVal(Head(s)))

\* strtol(s, NULL, 0): a 0x prefix is hexadecimal, a leading 0 octal, anything
\* else decimal; conversion stops at the first other character. (The values of
\* the model are short, so storing the long in a uint32_t changes nothing.)
strtol(s) ==
    IF Len(s) >= 3 /\ s[1] = "0" /\ s[2] \in {"x", "X"} /\ DigitVal(s[3]) < 16
    THEN strtol_digits(SubSeq(s, 3, Len(s)), 16, 0)
    ELSE IF Len(s) >= 1 /\ s[1] = "0"
    THEN strtol_digits(s, 8, 0)
    ELSE strtol_digits(s, 10, 0)

\* printf("%x") of a number below 16^7
ToHex(n) ==
    LET k == CHOOSE d \in 1..7 : n < 16 ^ d /\ (d = 1 \/ n >= 16 ^ (d - 1))
    IN  [i \in 1..k |-> HexDigits[((n \div (16 ^ (k - i))) % 16) + 1]]

\* *(strchrnul(name, ',')) = '\0': the name up to its first comma
strip_name(s) ==
    IF \E i \in 1..Len(s) : s[i] = ","
    THEN SubSeq(s, 1, (CHOOSE i \in 1..Len(s) :
                         s[i] = "," /\ \A j \in 1..(i - 1) : s[j] # ",") - 1)
    ELSE s

\* strbase: the part of a path after its last '/'
strbase(path) ==
    IF \E i \in 1..Len(path) : path[i] = "/"
    THEN SubSeq(path, (CHOOSE i \in 1..Len(path) :
                         path[i] = "/" /\ \A j \in (i + 1)..Len(path) : path[j] # "/") + 1,
                Len(path))
    ELSE path

\* fnmatch(pattern, string, 0): 0 on a match, 1 (FNM_NOMATCH) otherwise. A
\* pattern is a sequence of literal characters, "[0-9]" and "*".
RECURSIVE fnmatch(_, _, _)
fnmatch(pat, s, flags) ==
    IF pat = <<>> THEN (IF s = <<>> THEN 0 ELSE 1)
    ELSE IF Head(pat) = "*"
    THEN (IF \E k \in 0..Len(s) : fnmatch(Tail(pat), SubSeq(s, k + 1, Len(s)), flags) = 0
          THEN 0 ELSE 1)
    ELSE IF s = <<>> THEN 1
    ELSE IF Head(pat) = "[0-9]"
    THEN (IF IsDigit(Head(s)) THEN fnmatch(Tail(pat), Tail(s), flags) ELSE 1)
    ELSE IF Head(pat) = Head(s) THEN fnmatch(Tail(pat), Tail(s), flags)
    ELSE 1

(***************************************************************************)
(* The dispatch table.                                                     *)
(***************************************************************************)
DEV_PATH_ROOT == <<"/", "d", "e", "v">>

UNKNOWN_SUBSYSTEM == "unknown"

UnitGlob == <<"[0-9]", "*">>

LegacyRules ==
    << [subsystem |-> "input", syspath |-> DEV_PATH_ROOT \o <<"/", "u", "k", "b", "d">> \o UnitGlob,
        flags |-> SCFLAG_SKIP_IF_EVDEV, create_handler |-> "create_keyboard_handler"],
       [subsystem |-> "input", syspath |-> DEV_PATH_ROOT \o <<"/", "a", "t", "k", "b", "d">> \o UnitGlob,
        flags |-> SCFLAG_SKIP_IF_EVDEV, create_handler |-> "create_keyboard_handler"],
       [subsystem |-> "input", syspath |-> DEV_PATH_ROOT \o <<"/", "k", "b", "d", "m", "u", "x">> \o UnitGlob,
        flags |-> SCFLAG_SKIP_IF_EVDEV, create_handler |-> "create_kbdmux_handler"],
       [subsystem |-> "input", syspath |-> DEV_PATH_ROOT \o <<"/", "u", "m", "s">> \o UnitGlob,
        flags |-> SCFLAG_SKIP_IF_EVDEV, create_handler |-> "create_mouse_handler"],
       [subsystem |-> "input", syspath |-> DEV_PATH_ROOT \o <<"/", "p", "s", "m">> \o UnitGlob,
        flags |-> SCFLAG_SKIP_IF_EVDEV, create_handler |-> "create_mouse_handler"],
       [subsystem |-> "input", syspath |-> DEV_PATH_ROOT \o <<"/", "j", "o", "y">> \o UnitGlob,
        flags |-> 0, create_handler |-> "create_joystick_handler"],
       [subsystem |-> "input", syspath |-> DEV_PATH_ROOT \o <<"/", "a", "t", "p">> \o UnitGlob,
        flags |-> 0, create_handler |-> "create_touchpad_handler"],
       [subsystem |-> "input", syspath |-> DEV_PATH_ROOT \o <<"/", "w", "s", "p">> \o UnitGlob,
        flags |-> 0, create_handler |-> "create_touchpad_handler"],
       [subsystem |-> "input", syspath |-> DEV_PATH_ROOT \o <<"/", "u", "e", "p">> \o UnitGlob,
        flags |-> 0, create_handler |-> "create_touchscreen_handler"],
       [subsystem |-> "input", syspath |-> DEV_PATH_ROOT \o <<"/", "s", "y", "s", "m", "o", "u", "s", "e">>,
        flags |-> SCFLAG_SKIP_IF_EVDEV, create_handler |-> "create_sysmouse_handler"],
       [subsystem |-> "input", syspath |-> DEV_PATH_ROOT \o <<"/", "v", "b", "o", "x", "g", "u", "e", "s", "t">>,
        flags |-> 0, create_handler |-> "create_mouse_handler"] >>

EvdevRule ==
    [subsystem |-> "input",
     syspath |-> DEV_PATH_ROOT \o <<"/", "i", "n", "p", "u", "t", "/", "e", "v", "e", "n", "t">> \o UnitGlob,
     flags |-> 0, create_handler |-> "create_evdev_handler"]

subsystems == IF HAVE_LINUX_INPUT_H THEN <<EvdevRule>> \o LegacyRules ELSE LegacyRules

\* the NULL subsystem_config
NoConfig == [subsystem |-> "", syspath |-> <<>>, flags |-> 0, create_handler |-> "NULL"]

\* sc->flags & flag, for a one-bit flag
HasFlag(flags, flag) == (flags \div flag) % 2 = 1

\* for (i = 0; i < nitems(subsystems); i++), from rule i on
RECURSIVE first_match(_, _)
first_match(i, path) ==
    IF i > Len(subsystems) THEN NoConfig
    ELSE IF fnmatch(subsystems[i].syspath, path, 0) = 0 THEN subsystems[i]
    ELSE first_match(i + 1, path)

(***************************************************************************)
(* The device nodes of the model.                                          *)
(***************************************************************************)
none == <<"n", "o", "n", "e">>
atkbdc0 == <<"a", "t", "k", "b", "d", "c", "0">>
atkbd == <<"a", "t", "k", "b", "d">>
psm == <<"p", "s", "m">>

Dev(name) == DEV_PATH_ROOT \o <<"/">> \o name

event7 == Dev(<<"i", "n", "p", "u", "t", "/", "e", "v", "e", "n", "t", "7">>)
ukbd0 == Dev(<<"u", "k", "b", "d", "0">>)
atkbd0 == Dev(atkbd \o <<"0">>)
sysmouse == Dev(<<"s", "y", "s", "m", "o", "u", "s", "e">>)
vboxguest == Dev(<<"v", "b", "o", "x", "g", "u", "e", "s", "t">>)

\* device nodes of the rules with and without the skip flag, and of no rule
Paths ==
    {event7, ukbd0, sysmouse, Dev(<<"j", "o", "y", "0">>), Dev(<<"u", "k", "b", "d">>),
     Dev(<<"n", "u", "l", "l">>)}

\* legacy device nodes: with a unit number, without one, with a letter after it
LegacyPaths ==
    {ukbd0, atkbd0, Dev(psm \o <<"0">>), Dev(psm \o <<"1", "2">>), Dev(atkbd \o <<"0", "x">>),
     Dev(<<"u", "m", "s", "1">>), Dev(<<"j", "o", "y", "0">>), Dev(<<"a", "t", "p", "0">>),
     Dev(<<"w", "s", "p", "0">>), Dev(<<"u", "e", "p", "0">>),
     Dev(<<"k", "b", "d", "m", "u", "x", "0">>), sysmouse, vboxguest}

EvdevPaths == {event7}

\* first_match, tabulated over the device nodes of the model
ConfigTable ==
    [path \in Paths \cup LegacyPaths \cup EvdevPaths |-> first_match(1, path)]

get_subsystem_config_by_syspath(path) == ConfigTable[path]

(***************************************************************************)
(* The device object and its lists (udev-device.c and udev-list.c).        *)
(***************************************************************************)
\* no device: a NULL struct udev_device pointer
NullDev == [isnull |-> TRUE, sysname |-> <<>>, props |-> {}, sysattrs |-> {}]

\* udev_list_insert: the entry of that name is added or replaced; ok is whether
\* the allocation of the entry succeeds (the list is left alone when it fails)
udev_list_insert(ul, name, value, ok) ==
    IF ok THEN {e \in ul : e[1] # name} \cup {<<name, value>>} ELSE ul

get_sysname_by_syspath(syspath) == strbase(syspath)

(***************************************************************************)
(* The cached kernel feature flag.                                         *)
(***************************************************************************)
\* int enabled = -1, as bytes
MinusOne == <<255, 255, 255, 255>>

\* the bytes of an int of value 0 or 1 in the byte order of the build
IntBytes(v, order) == IF order = "little" THEN <<v, 0, 0, 0>> ELSE <<0, 0, 0, v>>

\* an int read as a bool
NonZero(bytes) == \E i \in 1..SizeofInt : bytes[i] # 0

\* sysctlbyname("kern.features.evdev_support", &enabled, &len, NULL, 0): fails
\* (ENOENT) when the kernel has no such feature; with a buffer of len bytes
\* shorter than the value it copies the len bytes that fit and fails (ENOMEM)
sysctlbyname_feature(k, buf, len, order) ==
    IF ~k.present THEN [rc |-> -1, buf |-> buf]
    ELSE LET val == IntBytes(k.value, order)
             n == IF len < SizeofInt THEN len ELSE SizeofInt
         IN  [rc |-> IF len < SizeofInt THEN -1 ELSE 0,
              buf |-> [i \in 1..SizeofInt |-> IF i <= n THEN val[i] ELSE buf[i]]]

\* a kernel_has_evdev_enabled that queries the kernel on every call
kernel_has_evdev_enabled_nocache(cache, k, len, order) ==
    LET r == sysctlbyname_feature(k, cache, len, order)
    IN  IF r.rc < 0
        THEN [ret |-> FALSE, enabled |-> r.buf, called |-> TRUE, queried |-> TRUE, failed |-> TRUE]
        ELSE [ret |-> NonZero(r.buf), enabled |-> r.buf, called |-> TRUE,
              queried |-> TRUE, failed |-> FALSE]

\* len is the value the uninitialized local len happens to hold
kernel_has_evdev_enabled(cache, k, len, order) ==
    IF cache # MinusOne
    THEN [ret |-> NonZero(cache), enabled |-> cache, called |-> TRUE,
          queried |-> FALSE, failed |-> FALSE]
    ELSE LET r == sysctlbyname_feature(k, cache, len, order)
         IN  IF r.rc < 0
             THEN [ret |-> FALSE, enabled |-> r.buf, called |-> TRUE,
                   queried |-> TRUE, failed |-> TRUE]
             ELSE [ret |-> NonZero(r.buf), enabled |-> r.buf, called |-> TRUE,
                   queried |-> TRUE, failed |-> FALSE]

\* no kernel_has_evdev_enabled call
NoGate(cache) ==
    [ret |-> FALSE, enabled |-> cache, called |-> FALSE, queried |-> FALSE, failed |-> FALSE]

\* a get_subsystem_by_syspath that does not look at the skip flag
get_subsystem_by_syspath_noskip(syspath, cache, k, len, order) ==
    LET sc == get_subsystem_config_by_syspath(syspath)
    IN  IF sc = NoConfig
        THEN [subsystem |-> UNKNOWN_SUBSYSTEM, gate |-> NoGate(cache)]
        ELSE [subsystem |-> sc.subsystem, gate |-> NoGate(cache)]

get_subsystem_by_syspath(syspath, cache, k, len, order) ==
    LET sc == get_subsystem_config_by_syspath(syspath)
        g == kernel_has_evdev_enabled(cache, k, len, order)
    IN  IF sc = NoConfig
        THEN [subsystem |-> UNKNOWN_SUBSYSTEM, gate |-> NoGate(cache)]
        ELSE IF HasFlag(sc.flags, SCFLAG_SKIP_IF_EVDEV)
        THEN (IF g.ret THEN [subsystem |-> UNKNOWN_SUBSYSTEM, gate |-> g]
              ELSE [subsystem |-> sc.subsystem, gate |-> g])
        ELSE [subsystem |-> sc.subsystem, gate |-> NoGate(cache)]

(***************************************************************************)
(* Classification markers and the parent device.                           *)
(***************************************************************************)
One == <<"1">>

\* ins says which of the list insertions succeed
set_input_device_type(dev, input_type, ins) ==
    IF ~ins.input THEN [ud |-> dev, rc |-> -1]
    ELSE LET ul == udev_list_insert(dev.props, "ID_INPUT", One, TRUE)
             ul2 ==
                 CASE input_type = IT_KEYBOARD ->
                        udev_list_insert(udev_list_insert(ul, "ID_INPUT_KEY", One, ins.type1),
                                         "ID_INPUT_KEYBOARD", One, ins.type2)
                   [] input_type = IT_MOUSE ->
                        udev_list_insert(ul, "ID_INPUT_MOUSE", One, ins.type1)
                   [] input_type = IT_TOUCHPAD ->
                        udev_list_insert(udev_list_insert(ul, "ID_INPUT_MOUSE", One, ins.type1),
                                         "ID_INPUT_TOUCHPAD", One, ins.type2)
                   [] input_type = IT_TOUCHSCREEN ->
                        udev_list_insert(ul, "ID_INPUT_TOUCHSCREEN", One, ins.type1)
                   [] input_type = IT_JOYSTICK ->
                        udev_list_insert(ul, "ID_INPUT_JOYSTICK", One, ins.type1)
                   [] input_type = IT_TABLET ->
                        udev_list_insert(ul, "ID_INPUT_TABLET", One, ins.type1)
                   [] OTHER -> ul
         IN  [ud |-> [dev EXCEPT !.props = ul2], rc |-> 0]

\* the parent device, NullDev when udev_device_new_common fails
create_xorg_parent(dev, sysname, name, product, pnp_id, ins) ==
    IF ~ins.parent THEN NullDev
    ELSE LET props1 == udev_list_insert({}, "NAME", name, ins.NAME)
             sysattrs1 == udev_list_insert({}, "name", name, ins.name)
             props2 == IF product # NULL
                       THEN udev_list_insert(props1, "PRODUCT", product, ins.PRODUCT)
                       ELSE props1
             sysattrs2 == IF pnp_id # NULL
                          THEN udev_list_insert(sysattrs1, "id", product, ins.id)
                          ELSE sysattrs1
         IN  [isnull |-> FALSE, sysname |-> sysname, props |-> props2, sysattrs |-> sysattrs2]

\* if (parent != NULL) udev_device_set_parent(ud, parent)
attach_parent(dev, parent) ==
    IF parent # NullDev THEN [dev EXCEPT !.parent = parent] ELSE dev

(***************************************************************************)
(* What one handler invocation did, for the properties to speak about.     *)
(***************************************************************************)
NoTrace ==
    [handler |-> "none",    \* the create_handler that ran
     ntype |-> 0,           \* calls of set_input_device_type
     itype |-> IT_NONE,     \* the input_type it was called with
     typed |-> {},          \* the device's properties when it returned
     nparent |-> 0,         \* calls of udev_device_set_parent
     nq |-> 0,              \* per-unit sysctl queries of set_parent
     reach |-> "",          \* where set_parent ended: "nounit", "qfail", "built"
     devname |-> <<>>,      \* set_parent's driver base name
     product |-> NULL,      \* the product id string that was formatted
     pnp_id |-> NULL,       \* the plug-and-play id set_parent retained
     queried |-> FALSE,     \* the evdev capability queries all succeeded
     opens |-> 0,           \* device handles the handler opened
     closes |-> 0]          \* close calls of the handler

(***************************************************************************)
(* create_evdev_handler.                                                   *)
(***************************************************************************)
bit_is_set(array, bit) == bit \in array

\* for (i = start; i < stop; i++) if (bit_is_set(array, i)) return true;
bit_find(array, start, stop) == \E i \in array : start <= i /\ i < stop /\ bit_is_set(array, i)

\* an evdev_probe whose touchpad test forgets the tool-finger button
evdev_probe_nofinger(key_bits, rel_bits, abs_bits) ==
    LET has_keys == bit_find(key_bits, 0, BTN_MISC)
        has_buttons0 == bit_find(key_bits, BTN_MISC, BTN_JOYSTICK)
        has_lmr == bit_find(key_bits, BTN_LEFT, BTN_MIDDLE + 1)
        has_rel_axes == bit_find(rel_bits, 0, REL_CNT)
        has_abs_axes == bit_find(abs_bits, 0, ABS_CNT)
        has_mt == bit_find(abs_bits, ABS_MT_SLOT, ABS_CNT)
        mt_nobuttons == has_abs_axes /\ has_mt /\ ~has_buttons0
        has_buttons == has_buttons0 \/ mt_nobuttons
        xy == has_abs_axes /\ bit_is_set(abs_bits, ABS_X) /\ bit_is_set(abs_bits, ABS_Y)
    IN  IF mt_nobuttons /\ bit_is_set(key_bits, BTN_JOYSTICK) THEN IT_JOYSTICK
        ELSE IF xy /\ (\/ bit_is_set(key_bits, BTN_TOOL_PEN)
                       \/ bit_is_set(key_bits, BTN_STYLUS)
                       \/ bit_is_set(key_bits, BTN_STYLUS2)) THEN IT_TABLET
        ELSE IF xy /\ (bit_is_set(abs_bits, ABS_PRESSURE) \/ bit_is_set(key_bits, BTN_TOUCH))
        THEN (IF has_lmr THEN IT_TOUCHPAD ELSE IT_TOUCHSCREEN)
        ELSE IF xy /\ ~(bit_is_set(rel_bits, REL_X) /\ bit_is_set(rel_bits, REL_Y)) /\ has_lmr
        THEN IT_TOUCHSCREEN
        ELSE IF has_keys THEN IT_KEYBOARD
        ELSE IF has_rel_axes \/ has_abs_axes \/ has_buttons THEN IT_MOUSE
        ELSE IT_NONE

\* the input_type the capability bitmaps decide; IT_NONE when they decide none
evdev_probe(key_bits, rel_bits, abs_bits) ==
    LET has_keys == bit_find(key_bits, 0, BTN_MISC)
        has_buttons0 == bit_find(key_bits, BTN_MISC, BTN_JOYSTICK)
        has_lmr == bit_find(key_bits, BTN_LEFT, BTN_MIDDLE + 1)
        has_rel_axes == bit_find(rel_bits, 0, REL_CNT)
        has_abs_axes == bit_find(abs_bits, 0, ABS_CNT)
        has_mt == bit_find(abs_bits, ABS_MT_SLOT, ABS_CNT)
        \* if (has_mt && !has_buttons), inside if (has_abs_axes)
        mt_nobuttons == has_abs_axes /\ has_mt /\ ~has_buttons0
        \* has_buttons = true in its else branch
        has_buttons == has_buttons0 \/ mt_nobuttons
        xy == has_abs_axes /\ bit_is_set(abs_bits, ABS_X) /\ bit_is_set(abs_bits, ABS_Y)
    IN  IF mt_nobuttons /\ bit_is_set(key_bits, BTN_JOYSTICK) THEN IT_JOYSTICK
        ELSE IF xy /\ (\/ bit_is_set(key_bits, BTN_TOOL_PEN)
                       \/ bit_is_set(key_bits, BTN_STYLUS)
                       \/ bit_is_set(key_bits, BTN_STYLUS2)) THEN IT_TABLET
        ELSE IF xy /\ (bit_is_set(abs_bits, ABS_PRESSURE) \/ bit_is_set(key_bits, BTN_TOUCH))
        THEN (IF has_lmr \/ bit_is_set(key_bits, BTN_TOOL_FINGER)
              THEN IT_TOUCHPAD ELSE IT_TOUCHSCREEN)
        ELSE IF xy /\ ~(bit_is_set(rel_bits, REL_X) /\ bit_is_set(rel_bits, REL_Y)) /\ has_lmr
        THEN IT_TOUCHSCREEN
        ELSE IF has_keys THEN IT_KEYBOARD
        ELSE IF has_rel_axes \/ has_abs_axes \/ has_buttons THEN IT_MOUSE
        ELSE IT_NONE

virtual_sysname == <<"u", "i", "n", "p", "u", "t">>

\* path_to_fd: the descriptor the library already holds on the device node (3,
\* say), -1 when it holds none
path_to_fd(env) == IF env.fdhit THEN 3 ELSE -1

\* open(devnode, O_RDONLY | O_CLOEXEC)
open(env) == IF env.openok THEN 4 ELSE -1

\* a bail_out that forgets to close the descriptor
evdev_bail_out_leak(opened) == 0

\* bail_out: if (opened) close(fd); the number of close calls
evdev_bail_out(opened) == IF opened THEN 1 ELSE 0

\* snprintf(product, sizeof(product), "%x/%x/%x/%x", id.bustype, ...)
format_id(id) ==
    ToHex(id.bustype) \o <<"/">> \o ToHex(id.vendor) \o <<"/">> \o ToHex(id.product)
    \o <<"/">> \o ToHex(id.version)

\* detected: ... if (parent != NULL) udev_device_set_parent(ud, parent); bail_out
evdev_attach(typed, parent, tr, input_type, product, opened) ==
    [ud |-> attach_parent(typed, parent),
     tr |-> [tr EXCEPT !.queried = TRUE, !.ntype = 1, !.itype = input_type,
                       !.typed = typed.props, !.product = product,
                       !.nparent = IF parent # NullDev THEN 1 ELSE 0,
                       !.closes = evdev_bail_out(opened)]]

\* detected: the physical-location buffer env.phys is what EVIOCGPHYS wrote or,
\* when it failed with ENOENT, what the uninitialized buffer held
evdev_detected(typed, tr, input_type, product, opened, env) ==
    evdev_attach(typed,
        create_xorg_parent(typed, IF env.phys = <<>> THEN virtual_sysname ELSE env.phys,
                           strip_name(env.name), product, NULL, env.ins),
        tr, input_type, product, opened)

\* the handler once the descriptor is there
evdev_classify(dev, tr, input_type, opened, env) ==
    IF env.ioctl = "fail"
    THEN [ud |-> dev, tr |-> [tr EXCEPT !.closes = evdev_bail_out(opened)]]
    ELSE IF input_type = IT_NONE
    THEN [ud |-> dev, tr |-> [tr EXCEPT !.queried = TRUE, !.closes = evdev_bail_out(opened)]]
    ELSE evdev_detected(set_input_device_type(dev, input_type, env.ins).ud, tr, input_type,
                        format_id(env.id), opened, env)

evdev_opened(dev, fd, opened, env) ==
    IF fd = -1
    THEN [ud |-> dev, tr |-> [NoTrace EXCEPT !.handler = "create_evdev_handler"]]
    ELSE evdev_classify(dev,
            [NoTrace EXCEPT !.handler = "create_evdev_handler",
                            !.opens = IF opened THEN 1 ELSE 0],
            evdev_probe(env.key, env.rel, env.abs), opened, env)

\* fd = path_to_fd(devnode); if (fd == -1) { fd = open(...); opened = true; }
evdev_open(dev, fd0, env) ==
    evdev_opened(dev, IF fd0 = -1 THEN open(env) ELSE fd0, fd0 = -1, env)

create_evdev_handler(dev, env) == evdev_open(dev, path_to_fd(env), env)

(***************************************************************************)
(* set_parent and the handlers of the legacy devices.                      *)
(***************************************************************************)
\* a syspathlen_wo_units that stops one character early
syspathlen_wo_units_short(path) ==
    IF Len(path) > 0 THEN Len(path) - 1 ELSE 0

\* the length of the path without the digits it ends with
syspathlen_wo_units(path) ==
    CHOOSE len \in 0..Len(path) :
        /\ \A i \in (len + 1)..Len(path) : IsDigit(path[i])
        /\ len = 0 \/ ~IsDigit(path[len])
\* get_kern_prop_value: the value of the first key=value pair of the blob with
\* that key, NULL when the blob has none. A blob is a sequence of <<key, value>>.
get_kern_prop_value(blob, key) ==
    IF \E i \in 1..Len(blob) : blob[i][1] = key
    THEN LET first == CHOOSE i \in 1..Len(blob) :
                        /\ blob[i][1] = key
                        /\ \A j \in 1..(i - 1) : blob[j][1] # key
         IN  blob[first][2]
    ELSE NULL


\* an identity derivation whose keyboard branch takes the mouse vendor
derive_ids_mousevendor(vendorstr, prodstr, devicestr, parentname, devname) ==
    IF prodstr # NULL /\ vendorstr # NULL
    THEN [bus |-> BUS_USB, vendor |-> strtol(vendorstr), prod |-> strtol(prodstr)]
    ELSE IF devicestr # NULL /\ vendorstr # NULL
    THEN [bus |-> BUS_PCI, vendor |-> strtol(vendorstr), prod |-> strtol(devicestr)]
    ELSE IF parentname = atkbdc0
    THEN (IF devname = atkbd
          THEN [bus |-> BUS_I8042, vendor |-> PS2_MOUSE_VENDOR, prod |-> PS2_KEYBOARD_PRODUCT]
          ELSE IF devname = psm
          THEN [bus |-> BUS_I8042, vendor |-> PS2_MOUSE_VENDOR,
                prod |-> PS2_MOUSE_GENERIC_PRODUCT]
          ELSE [bus |-> BUS_I8042, vendor |-> 0, prod |-> 0])
    ELSE [bus |-> BUS_VIRTUAL, vendor |-> 0, prod |-> 0]

\* bus, vendor and prod of set_parent
derive_ids(vendorstr, prodstr, devicestr, parentname, devname) ==
    IF prodstr # NULL /\ vendorstr # NULL
    THEN [bus |-> BUS_USB, vendor |-> strtol(vendorstr), prod |-> strtol(prodstr)]
    ELSE IF devicestr # NULL /\ vendorstr # NULL
    THEN [bus |-> BUS_PCI, vendor |-> strtol(vendorstr), prod |-> strtol(devicestr)]
    ELSE IF parentname = atkbdc0
    THEN (IF devname = atkbd
          THEN [bus |-> BUS_I8042, vendor |-> PS2_KEYBOARD_VENDOR,
                prod |-> PS2_KEYBOARD_PRODUCT]
          ELSE IF devname = psm
          THEN [bus |-> BUS_I8042, vendor |-> PS2_MOUSE_VENDOR,
                prod |-> PS2_MOUSE_GENERIC_PRODUCT]
          ELSE [bus |-> BUS_I8042, vendor |-> 0, prod |-> 0])
    ELSE [bus |-> BUS_VIRTUAL, vendor |-> 0, prod |-> 0]

\* snprintf(product, sizeof(product), "%x/%x/%x/0", bus, vendor, prod)
format_product(ids) ==
    ToHex(ids.bus) \o <<"/">> \o ToHex(ids.vendor) \o <<"/">> \o ToHex(ids.prod) \o <<"/", "0">>

\* the _HID value set_parent keeps: none when it is the literal "none"
retained_pnp_id(pnp_id) ==
    IF pnp_id # NULL /\ Len(pnp_id) = 4 /\ SubSeq(pnp_id, 1, 4) = none THEN NULL ELSE pnp_id

\* parent = create_xorg_parent(...); if (parent != NULL) udev_device_set_parent(ud, parent)
set_parent_attach(dev, tr, devname, product, pnp_id, parent) ==
    [ud |-> attach_parent(dev, parent),
     tr |-> [tr EXCEPT !.reach = "built", !.nq = 3, !.devname = devname,
                       !.product = product, !.pnp_id = pnp_id,
                       !.nparent = IF parent # NullDev THEN 1 ELSE 0]]

\* set_parent once the three queries have answered
set_parent_build(dev, tr, env, sysname, devname, product, pnp_id) ==
    set_parent_attach(dev, tr, devname, product, pnp_id,
        create_xorg_parent(dev, sysname, strip_name(env.desc), product, pnp_id, env.ins))

\* set_parent from the unit number check on. env.q names the first of the three
\* sysctlbyname queries that fails ("ok": none); env.desc, env.pnpinfo and
\* env.parentname are what they return
set_parent_unit(dev, tr, env, sysname, len) ==
    IF Len(sysname) = len
    THEN [ud |-> dev, tr |-> [tr EXCEPT !.reach = "nounit"]]
    ELSE IF env.q = "desc"
    THEN [ud |-> dev, tr |-> [tr EXCEPT !.reach = "qfail", !.nq = 1,
                                        !.devname = SubSeq(sysname, 1, len)]]
    ELSE IF env.q = "pnpinfo"
    THEN [ud |-> dev, tr |-> [tr EXCEPT !.reach = "qfail", !.nq = 2,
                                        !.devname = SubSeq(sysname, 1, len)]]
    ELSE IF env.q = "parent"
    THEN [ud |-> dev, tr |-> [tr EXCEPT !.reach = "qfail", !.nq = 3,
                                        !.devname = SubSeq(sysname, 1, len)]]
    ELSE set_parent_build(dev, tr, env, sysname, SubSeq(sysname, 1, len),
            format_product(derive_ids(get_kern_prop_value(env.pnpinfo, "vendor"),
                                      get_kern_prop_value(env.pnpinfo, "product"),
                                      get_kern_prop_value(env.pnpinfo, "device"),
                                      env.parentname, SubSeq(sysname, 1, len))),
            retained_pnp_id(get_kern_prop_value(env.pnpinfo, "_HID")))

set_parent_named(dev, tr, env, sysname) ==
    set_parent_unit(dev, tr, env, sysname, syspathlen_wo_units(sysname))

set_parent(dev, tr, env) ==
    set_parent_named(dev, tr, env, get_sysname_by_syspath(dev.syspath))

typed_handler_then(typed, handler, input_type, env) ==
    set_parent(typed, [NoTrace EXCEPT !.handler = handler, !.ntype = 1, !.itype = input_type,
                                      !.typed = typed.props], env)

\* set_input_device_type(ud, input_type); set_parent(ud);
typed_handler(dev, handler, input_type, env) ==
    typed_handler_then(set_input_device_type(dev, input_type, env.ins).ud,
                       handler, input_type, env)

create_keyboard_handler(dev, env) ==
    typed_handler(dev, "create_keyboard_handler", IT_KEYBOARD, env)

create_mouse_handler(dev, env) ==
    typed_handler(dev, "create_mouse_handler", IT_MOUSE, env)

create_joystick_handler(dev, env) ==
    typed_handler(dev, "create_joystick_handler", IT_JOYSTICK, env)

create_touchpad_handler(dev, env) ==
    typed_handler(dev, "create_touchpad_handler", IT_TOUCHPAD, env)

create_touchscreen_handler(dev, env) ==
    typed_handler(dev, "create_touchscreen_handler", IT_TOUCHSCREEN, env)

fixed_handler_attach(typed, parent, handler, input_type, product) ==
    [ud |-> attach_parent(typed, parent),
     tr |-> [NoTrace EXCEPT !.handler = handler, !.ntype = 1, !.itype = input_type,
                            !.typed = typed.props, !.product = product,
                            !.nparent = IF parent # NullDev THEN 1 ELSE 0]]

fixed_handler_then(typed, handler, input_type, name, product, env) ==
    fixed_handler_attach(typed,
        create_xorg_parent(typed, get_sysname_by_syspath(typed.syspath), name, product,
                           NULL, env.ins),
        handler, input_type, product)

\* set_input_device_type, then a parent of a fixed name and product
fixed_handler(dev, handler, input_type, name, product, env) ==
    fixed_handler_then(set_input_device_type(dev, input_type, env.ins).ud,
                       handler, input_type, name, product, env)

KbdmuxName == <<"S", "y", "s", "t", "e", "m", " ", "k", "e", "y", "b", "o", "a", "r", "d",
                " ", "m", "u", "l", "t", "i", "p", "l", "e", "x", "o", "r">>

SysmouseName == <<"S", "y", "s", "t", "e", "m", " ", "m", "o", "u", "s", "e">>

create_kbdmux_handler(dev, env) ==
    fixed_handler(dev, "create_kbdmux_handler", IT_KEYBOARD, KbdmuxName,
                  <<"6", "/", "1", "/", "1", "/", "0">>, env)

create_sysmouse_handler(dev, env) ==
    fixed_handler(dev, "create_sysmouse_handler", IT_MOUSE, SysmouseName,
                  <<"6", "/", "2", "/", "1", "/", "0">>, env)

\* sc->create_handler(ud)
call_handler(handler, dev, env) ==
    CASE handler = "create_evdev_handler" -> create_evdev_handler(dev, env)
      [] handler = "create_keyboard_handler" -> create_keyboard_handler(dev, env)
      [] handler = "create_mouse_handler" -> create_mouse_handler(dev, env)
      [] handler = "create_kbdmux_handler" -> create_kbdmux_handler(dev, env)
      [] handler = "create_sysmouse_handler" -> create_sysmouse_handler(dev, env)
      [] handler = "create_joystick_handler" -> create_joystick_handler(dev, env)
      [] handler = "create_touchpad_handler" -> create_touchpad_handler(dev, env)
      [] handler = "create_touchscreen_handler" -> create_touchscreen_handler(dev, env)

\* the skip: the handler is not called and the device is left as it was
skipped(dev, g) == [ud |-> dev, tr |-> NoTrace, gate |-> g]

\* sc->create_handler(ud) was called; g is the kernel_has_evdev_enabled call made
handled(r, g) == [ud |-> r.ud, tr |-> r.tr, gate |-> g]

\* g is what kernel_has_evdev_enabled did, if it was called at all:
\* if (... && kernel_has_evdev_enabled()) return; sc->create_handler(ud);
invoke_gated(sc, g, dev, env) ==
    IF g.ret THEN skipped(dev, g)
    ELSE handled(call_handler(sc.create_handler, dev, env), g)

\* an invoke_create_handler that does not look at the skip flag
invoke_config_noskip(sc, dev, cache, k, len, order, env) ==
    IF sc = NoConfig \/ sc.create_handler = "NULL"
    THEN skipped(dev, NoGate(cache))
    ELSE invoke_gated(sc, NoGate(cache), dev, env)

\* invoke_create_handler once sc is looked up; && calls kernel_has_evdev_enabled
\* only for a rule with the flag
invoke_config(sc, dev, cache, k, len, order, env) ==
    IF sc = NoConfig \/ sc.create_handler = "NULL"
    THEN skipped(dev, NoGate(cache))
    ELSE invoke_gated(sc,
            IF HasFlag(sc.flags, SCFLAG_SKIP_IF_EVDEV)
            THEN kernel_has_evdev_enabled(cache, k, len, order)
            ELSE NoGate(cache),
            dev, env)

invoke_create_handler(dev, cache, k, len, order, env) ==
    invoke_config(get_subsystem_config_by_syspath(dev.syspath), dev, cache, k, len, order, env)

(***************************************************************************)
(* Devices, kernels and environments.                                      *)
(***************************************************************************)
NewDev(path) == [state |-> "new", syspath |-> path, props |-> {}, parent |-> NullDev]

KernAbsent == [present |-> FALSE, value |-> 0]
KernStates == {KernAbsent, [present |-> TRUE, value |-> 0], [present |-> TRUE, value |-> 1]}

InsSites == {"input", "type1", "type2", "parent", "NAME", "name", "PRODUCT", "id"}

InsAllOk == [x \in InsSites |-> TRUE]

\* the allocations that fail are among sites, and at most MaxFailures of them
InsFailing(sites) ==
    {[x \in InsSites |-> x \notin F] : F \in {G \in SUBSET sites : Cardinality(G) <= MaxFailures}}

Opt(key, values) == {<<>>} \cup {<< <<key, v>> >> : v \in values}

\* plug-and-play blobs
Blobs ==
    {a \o b \o c \o d :
        a \in Opt("vendor", {<<"0", "x", "1">>}),
        b \in Opt("product", {<<"0", "x", "2">>}),
        c \in Opt("device", {<<"0", "x", "1", "f">>}),
        d \in Opt("_HID", {none, <<"P", "N", "P", "0", "3", "0", "3">>})}

EnvBase ==
    [fdhit |-> FALSE, openok |-> TRUE, ioctl |-> "ok",
     key |-> {}, rel |-> {}, abs |-> {},
     name |-> <<"A", "T", ",", "k">>, phys |-> <<>>,
     id |-> [bustype |-> BUS_USB, vendor |-> 1133, product |-> 49, version |-> 273],
     ins |-> InsAllOk, q |-> "ok",
     desc |-> <<"A", "T", ",", "k">>, pnpinfo |-> <<>>, parentname |-> atkbdc0]

EnvGate == {[EnvBase EXCEPT !.key = {KEY_A}, !.ins = i] : i \in InsFailing({"input"})}

EnvLegacy ==
    {[EnvBase EXCEPT !.ins = i, !.q = q, !.pnpinfo = b, !.parentname = p] :
        i \in InsFailing(InsSites), q \in {"ok", "desc", "pnpinfo", "parent"},
        b \in Blobs, p \in {atkbdc0, <<"u", "h", "u", "b", "0">>}}

KeyCodes ==
    {KEY_A, BTN_LEFT, BTN_JOYSTICK, BTN_TOOL_PEN, BTN_TOOL_FINGER, BTN_TOUCH, BTN_STYLUS,
     BTN_STYLUS2}
AbsCodes == {ABS_X, ABS_Y, ABS_PRESSURE, ABS_MT_SLOT}
RelCodes == {REL_X, REL_Y}

FdCases == {<<TRUE, TRUE>>, <<FALSE, TRUE>>, <<FALSE, FALSE>>}

\* every capability bitmap over the codes above, on a device whose queries and
\* allocations succeed
EnvEvdevCaps ==
    {[EnvBase EXCEPT !.key = k, !.abs = a, !.rel = r, !.fdhit = f] :
        k \in SUBSET KeyCodes, a \in SUBSET AbsCodes, r \in {{}, RelCodes}, f \in BOOLEAN}

\* every failure of an open, a query or an allocation, on a device that is
\* nothing, a keyboard or a touchpad
EnvEvdevFail ==
    {[EnvBase EXCEPT !.key = c[1], !.abs = c[2], !.ioctl = io, !.phys = ph,
                     !.fdhit = f[1], !.openok = f[2], !.ins = i] :
        c \in {<<{}, {}>>, <<{KEY_A}, {}>>, <<{BTN_TOOL_FINGER}, {ABS_X, ABS_Y, ABS_PRESSURE}>>},
        io \in {"ok", "nophys", "fail"}, ph \in {<<>>, <<"u", "s", "b">>}, f \in FdCases,
        i \in InsFailing({"input", "type1", "type2", "parent", "NAME", "name", "PRODUCT"})}

EnvEvdev == EnvEvdevCaps \cup EnvEvdevFail

(***************************************************************************)
(* The state machine.                                                      *)
(***************************************************************************)
GateObs(g) == [called |-> g.called, queried |-> g.queried, failed |-> g.failed, ret |-> g.ret]

NoSub == [called |-> FALSE, subsystem |-> UNKNOWN_SUBSYSTEM, failed |-> FALSE]

NoObs == [tr |-> NoTrace, env |-> EnvBase, gate |-> GateObs(NoGate(MinusOne))]

\* the first successful query of the feature flag stays on record
FirstAfter(g, k) ==
    IF ~firstRead.set /\ g.queried /\ ~g.failed
    THEN [set |-> TRUE, val |-> k.value # 0]
    ELSE firstRead

\* no device
NoDev == [state |-> "none", syspath |-> <<>>, props |-> {}, parent |-> NullDev]

InitWith(kerns, orders) ==
    /\ enabled = MinusOne
    /\ kern \in kerns
    /\ byteorder \in orders
    /\ ud = NoDev
    /\ gate = GateObs(NoGate(MinusOne))
    /\ firstRead = [set |-> FALSE, val |-> FALSE]
    /\ sub = NoSub
    /\ obs = NoObs

\* the library makes the udev_device of a device node
NewDevice(paths) ==
    /\ ud.state = "none"
    /\ \E p \in paths : ud' = NewDev(p)
    /\ gate' = GateObs(NoGate(enabled))
    /\ UNCHANGED <<enabled, kern, byteorder, firstRead, sub, obs>>

\* the library drops the device
Release ==
    /\ ud.state = "handled"
    /\ ud' = NoDev
    /\ gate' = GateObs(NoGate(enabled))
    /\ sub' = NoSub
    /\ obs' = NoObs
    /\ UNCHANGED <<enabled, kern, byteorder, firstRead>>

\* the feature appears in, or disappears from, the kernel
KernelChange ==
    /\ \E k \in KernStates \ {kern} : kern' = k
    /\ gate' = GateObs(NoGate(enabled))
    /\ UNCHANGED <<enabled, byteorder, ud, firstRead, sub, obs>>

\* the state after a get_subsystem_by_syspath that answered r
Answered(r) ==
    /\ enabled' = r.gate.enabled
    /\ gate' = GateObs(r.gate)
    /\ firstRead' = FirstAfter(r.gate, kern)
    /\ sub' = IF sub.called THEN sub
              ELSE [called |-> TRUE, subsystem |-> r.subsystem, failed |-> r.gate.failed]
    /\ UNCHANGED <<kern, byteorder, ud, obs>>

\* get_subsystem_by_syspath on ud's path, before its handler is invoked; sub
\* keeps the answer of the first of these calls
GetSubsystem ==
    /\ ud.state = "new"
    /\ \E len \in 0..MaxLen :
        Answered(get_subsystem_by_syspath(ud.syspath, enabled, kern, len, byteorder))

\* the state after an invoke_create_handler that did r
Invoked(r, env) ==
    /\ ud' = [r.ud EXCEPT !.state = "handled"]
    /\ enabled' = r.gate.enabled
    /\ gate' = GateObs(r.gate)
    /\ firstRead' = FirstAfter(r.gate, kern)
    /\ obs' = [tr |-> r.tr, env |-> env, gate |-> GateObs(r.gate)]
    /\ UNCHANGED <<kern, byteorder, sub>>

\* invoke_create_handler on ud, once per device
Invoke(envs, lens) ==
    /\ ud.state = "new"
    /\ \E env \in envs, len \in lens :
        Invoked(invoke_create_handler(ud, enabled, kern, len, byteorder, env), env)

Init == InitWith(KernStates, {"little", "big"})

Next ==
    \/ NewDevice(Paths)
    \/ Release
    \/ KernelChange
    \/ GetSubsystem
    \/ Invoke(EnvGate, 0..MaxLen)

Spec == Init /\ [][Next]_vars

InitLegacy == InitWith({KernAbsent}, {"little"})

NextLegacy ==
    \/ NewDevice(LegacyPaths)
    \/ Release
    \/ Invoke(EnvLegacy, {SizeofInt})

SpecLegacy == InitLegacy /\ [][NextLegacy]_vars

InitEvdev == InitWith({KernAbsent}, {"little"})

NextEvdev ==
    \/ NewDevice(EvdevPaths)
    \/ Release
    \/ Invoke(EnvEvdev, {SizeofInt})

SpecEvdev == InitEvdev /\ [][NextEvdev]_vars

(***************************************************************************)
(* The properties.                                                         *)
(***************************************************************************)
\* the handlers that end in set_parent
SetParentHandlers ==
    {"create_keyboard_handler", "create_mouse_handler", "create_joystick_handler",
     "create_touchpad_handler", "create_touchscreen_handler"}

\* C1: a device of a rule with the skip flag (/dev/ukbd0, /dev/sysmouse) gets
\* the rule's handler exactly when the kernel_has_evdev_enabled call of that
\* invoke_create_handler returned false, and is left without markers and
\* without parent when it returned true; a device of a rule without the flag
\* (/dev/input/event7, /dev/joy0) gets the rule's handler whatever the cache
\* holds, and the feature flag is not even looked at.
C1_SkipFlagDecides ==
    /\ ud.state = "handled" /\ ud.syspath \in {ukbd0, sysmouse} =>
        /\ obs.gate.called
        /\ obs.gate.ret =>
            obs.tr.handler = "none" /\ ud.props = {} /\ ud.parent = NullDev
        /\ ~obs.gate.ret =>
            obs.tr.handler = IF ud.syspath = ukbd0 THEN "create_keyboard_handler"
                             ELSE "create_sysmouse_handler"
    /\ ud.state = "handled" /\ ud.syspath \in {event7, Dev(<<"j", "o", "y", "0">>)} =>
        /\ ~obs.gate.called
        /\ obs.tr.handler = IF ud.syspath = event7 THEN "create_evdev_handler"
                            ELSE "create_joystick_handler"

\* C1 witness: /dev/ukbd0 was skipped because the feature flag read true
C1_Witness ==
    /\ ud.state = "handled" /\ ud.syspath = ukbd0
    /\ obs.gate.called /\ obs.gate.ret /\ obs.tr.handler = "none"

\* C2: once a query of the feature flag has succeeded, every later
\* kernel_has_evdev_enabled call returns the value that query read, asks the
\* kernel nothing and leaves the cache as it is, whatever the kernel says now.
C2_CacheImmutable ==
    [][(firstRead.set /\ gate'.called) =>
        (gate'.ret = firstRead.val /\ ~gate'.queried /\ enabled' = enabled)]_vars

\* C2 witness: a call answered from the cache after the kernel's flag changed
C2_Witness ==
    /\ firstRead.set /\ gate.called /\ ~gate.queried
    /\ gate.ret = firstRead.val
    /\ kern.present /\ (kern.value # 0) # firstRead.val

\* C3: a kernel_has_evdev_enabled call whose query fails returns false and
\* leaves the cache at -1, the value that makes the next call query again.
C3_FailureNotCached ==
    gate.failed => (~gate.ret /\ enabled = MinusOne)

C6_NoUnitOrQueryFailure ==
    (/\ ud.state = "handled" /\ obs.tr.handler \in SetParentHandlers
     /\ (~IsDigit(ud.syspath[Len(ud.syspath)]) \/ obs.env.q # "ok"))
    => /\ ud.parent = NullDev /\ obs.tr.nparent = 0
       /\ ud.props = obs.tr.typed
       /\ ~IsDigit(ud.syspath[Len(ud.syspath)]) => obs.tr.nq = 0

\* C6 witness: /dev/vboxguest went through its handler, has its markers, and
\* set_parent asked nothing
C6_Witness ==
    /\ ud.state = "handled" /\ ud.syspath = vboxguest
    /\ obs.tr.handler = "create_mouse_handler"
    /\ <<"ID_INPUT_MOUSE", One>> \in ud.props
    /\ obs.tr.nq = 0 /\ ud.parent = NullDev

\* C7: the parent set_parent builds has an id attribute exactly when the blob
\* holds a _HID other than "none", and the attribute's value is that _HID.
\* (Stated for runs in which every allocation succeeds.)
C7_IdIsHid ==
    (/\ ud.state = "handled" /\ obs.tr.handler \in SetParentHandlers
     /\ ud.parent # NullDev /\ obs.env.ins = InsAllOk)
    => /\ (\E e \in ud.parent.sysattrs : e[1] = "id")
            <=> (\E i \in 1..Len(obs.env.pnpinfo) :
                    obs.env.pnpinfo[i][1] = "_HID" /\ obs.env.pnpinfo[i][2] # none)
       /\ \A e \in ud.parent.sysattrs : e[1] = "id" =>
            \E i \in 1..Len(obs.env.pnpinfo) :
                obs.env.pnpinfo[i][1] = "_HID" /\ obs.env.pnpinfo[i][2] = e[2]

\* C8: create_evdev_handler closes the descriptor it opened exactly once, on
\* every way out, and closes nothing when it opened nothing.
C8_ClosedOnce ==
    (ud.state = "handled" /\ obs.tr.handler = "create_evdev_handler")
    => /\ obs.tr.opens = (IF ~obs.env.fdhit /\ obs.env.openok THEN 1 ELSE 0)
       /\ obs.tr.closes = obs.tr.opens

\* C8 witness: the handler opened the node, classified the device, failed to
\* allocate the parent, and closed the descriptor
C8_Witness ==
    /\ ud.state = "handled" /\ obs.tr.handler = "create_evdev_handler"
    /\ obs.tr.itype = IT_KEYBOARD /\ ~obs.env.ins.parent /\ ud.parent = NullDev
    /\ obs.tr.opens = 1 /\ obs.tr.closes = 1

\* C9: a device that has a parent has its classification: the ID_INPUT marker.
C9_ParentImpliesClassified ==
    ud.parent # NullDev => <<"ID_INPUT", One>> \in ud.props

\* C10 as stated: get_subsystem_by_syspath says "input" exactly when the
\* invoke_create_handler that follows runs a handler, and "unknown" exactly
\* when it runs none.
C10_AlwaysAgree ==
    (ud.state = "handled" /\ sub.called)
    => /\ sub.subsystem = "input" <=> obs.tr.handler # "none"
       /\ sub.subsystem = UNKNOWN_SUBSYSTEM <=> obs.tr.handler = "none"

\* C10: the two agree whenever the feature flag query of that
\* get_subsystem_by_syspath call did not fail (a call that needs no query, or
\* is answered from the cache, included).
C10_AgreeUnlessQueryFailed ==
    (ud.state = "handled" /\ sub.called /\ ~sub.failed)
    => /\ sub.subsystem = "input" <=> obs.tr.handler # "none"
       /\ sub.subsystem = UNKNOWN_SUBSYSTEM <=> obs.tr.handler = "none"

\* C10 witness: /dev/ukbd0 was reported unknown and then skipped, though the
\* kernel no longer has the feature
C10_Witness ==
    /\ ud.state = "handled" /\ ud.syspath = ukbd0
    /\ sub.called /\ ~sub.failed /\ sub.subsystem = UNKNOWN_SUBSYSTEM
    /\ obs.tr.handler = "none" /\ ~kern.present

====
